---------------------------- MODULE Spec2Model ----------------------------
(***************************************************************************)
(* A model of report_generator.py: PowerPointModifier loads per-slide      *)
(* replacement data from a CSV table, walks the slides of a presentation,  *)
(* substitutes {{token}} markers in text runs and table cells, swaps       *)
(* shapes for pictures, rewrites hyperlinks, and saves the presentation.   *)
(*                                                                         *)
(* Strings are sequences of one-character strings, so that the regular     *)
(* expression, strip(), lower(), endswith(), isdigit(), int() and the      *)
(* substring test are computed character by character as Python does.      *)
(* The empty sequence stands for both '' and None where Python only tests  *)
(* truthiness (a hyperlink address).                                       *)
(***************************************************************************)
EXTENDS Integers, Sequences, FiniteSets, TLC

(***************************************************************************)
(* Bounds of the model.                                                    *)
(***************************************************************************)
MaxRows == 2
MaxShapes == 2
MaxSegs == 2

(***************************************************************************)
(* Strings.                                                                *)
(***************************************************************************)
Upper == <<"A","B","C","D","E","F","G","H","I","J","K","L","M",
           "N","O","P","Q","R","S","T","U","V","W","X","Y","Z">>
Lower == <<"a","b","c","d","e","f","g","h","i","j","k","l","m",
           "n","o","p","q","r","s","t","u","v","w","x","y","z">>
Digits == <<"0","1","2","3","4","5","6","7","8","9">>
Whitespace == {" ", "\t", "\n", "\r"}

\* str.lower() on one character, then on a string
lower_char(c) ==
    IF \E i \in 1..26 : Upper[i] = c
    THEN Lower[CHOOSE i \in 1..26 : Upper[i] = c]
    ELSE c

lower(s) == [i \in 1..Len(s) |-> lower_char(s[i])]

\* str.endswith(ext)
endswith(s, ext) ==
    /\ Len(s) >= Len(ext)
    /\ SubSeq(s, Len(s) - Len(ext) + 1, Len(s)) = ext

\* a variant that drops leading whitespace only (lstrip for strip)
strip_leading(s) ==
    LET keep == {i \in 1..Len(s) : s[i] \notin Whitespace}
    IN  IF keep = {} THEN <<>>
        ELSE SubSeq(s, CHOOSE i \in keep : \A j \in keep : i <= j, Len(s))

\* str.strip(): drop leading and trailing whitespace
strip(s) ==
    LET keep == {i \in 1..Len(s) : s[i] \notin Whitespace}
    IN  IF keep = {} THEN <<>>
        ELSE LET lo == CHOOSE i \in keep : \A j \in keep : i <= j
                 hi == CHOOSE i \in keep : \A j \in keep : j <= i
             IN  SubSeq(s, lo, hi)

\* str.isdigit(): non-empty and every character a decimal digit
isdigit(s) ==
    /\ Len(s) > 0
    /\ \A i \in 1..Len(s) : \E d \in 1..10 : Digits[d] = s[i]

digit_value(c) == (CHOOSE d \in 1..10 : Digits[d] = c) - 1

\* int(s) of a digit string
RECURSIVE int(_)
int(s) ==
    IF Len(s) = 0 THEN 0
    ELSE 10 * int(SubSeq(s, 1, Len(s) - 1)) + digit_value(s[Len(s)])

\* key in text: key occurs as a contiguous substring ('' occurs in any text)
contains(text, key) ==
    \E i \in 1..(Len(text) + 1) :
        /\ i + Len(key) - 1 <= Len(text)
        /\ SubSeq(text, i, i + Len(key) - 1) = key

RECURSIVE concat(_)
concat(ss) == IF Len(ss) = 0 THEN <<>> ELSE Head(ss) \o concat(Tail(ss))

\* sep.join(ss)
RECURSIVE join(_, _)
join(sep, ss) ==
    IF Len(ss) = 0 THEN <<>>
    ELSE IF Len(ss) = 1 THEN Head(ss)
    ELSE Head(ss) \o sep \o join(sep, Tail(ss))

(***************************************************************************)
(* The token pattern  \{\{(.*?)\}\}  with DOTALL, and re.sub with a        *)
(* replacement function.  A match starts at the leftmost "{{" that is      *)
(* followed, two or more characters on, by a "}}", and ends at the first   *)
(* such "}}" (non-greedy); the scan resumes after the match and the        *)
(* replacement is never scanned again.                                     *)
(***************************************************************************)
is_open(t, i) == i + 1 <= Len(t) /\ t[i] = "{" /\ t[i + 1] = "{"
is_close(t, i) == i + 1 <= Len(t) /\ t[i] = "}" /\ t[i + 1] = "}"

\* the match at or after position i: <<first, last>>, or <<0, 0>> if none
text_placeholder_pattern(t, i) ==
    LET starts == {o \in i..Len(t) :
                      is_open(t, o) /\ \E c \in (o + 2)..Len(t) : is_close(t, c)}
    IN  IF starts = {} THEN <<0, 0>>
        ELSE LET o == CHOOSE x \in starts : \A y \in starts : x <= y
                 closes == {c \in (o + 2)..Len(t) : is_close(t, c)}
                 c == CHOOSE x \in closes : \A y \in closes : x <= y
             IN  <<o, c + 1>>

\* all matches of the pattern in t from position i on, left to right
RECURSIVE finditer(_, _)
finditer(t, i) ==
    LET m == text_placeholder_pattern(t, i)
    IN  IF m[1] = 0 THEN <<>> ELSE <<m>> \o finditer(t, m[2] + 1)

group0(t, m) == SubSeq(t, m[1], m[2])
group1(t, m) == SubSeq(t, m[1] + 2, m[2] - 2)

\* pattern.sub(repl, t): ms are the matches, reps their replacements
RECURSIVE stitch(_, _, _, _)
stitch(t, i, ms, reps) ==
    IF Len(ms) = 0 THEN SubSeq(t, i, Len(t))
    ELSE SubSeq(t, i, Head(ms)[1] - 1) \o Head(reps)
         \o stitch(t, Head(ms)[2] + 1, Tail(ms), Tail(reps))

(***************************************************************************)
(* Python dict with string keys: a sequence of <<key, value>> pairs in     *)
(* insertion order; assigning to an existing key keeps its position.       *)
(***************************************************************************)
dict_has(d, k) == \E i \in 1..Len(d) : d[i][1] = k

dict_get(d, k, default) ==
    IF dict_has(d, k) THEN d[CHOOSE i \in 1..Len(d) : d[i][1] = k][2]
    ELSE default

dict_set(d, k, v) ==
    IF dict_has(d, k)
    THEN [i \in 1..Len(d) |-> IF d[i][1] = k THEN <<k, v>> ELSE d[i]]
    ELSE Append(d, <<k, v>>)


(***************************************************************************)
(* String literals used by the inputs.                                     *)
(***************************************************************************)
s_name == <<"n","a","m","e">>
s_missing == <<"m","i","s","s">>
s_a_png == <<"a",".","p","n","g">>
s_B_PNG == <<"B",".","P","N","G">>
s_c_gif == <<"c",".","g","i","f">>
s_3 == <<"3">>
s_03 == <<"0","3">>
s_n == <<"n">>
s_Al == <<"A","l">>
s_Bo == <<"B","o">>
s_old == <<"o">>
s_hello == <<"h","e","y">>
f_img == <<"/","f">>
f_img2 == <<"/","h">>
f_gone == <<"/","g">>

\* the files os.path.isfile() finds; each is a readable image
ExistingFiles == {f_img, f_img2}

isfile(path) == path \in ExistingFiles

(***************************************************************************)
(* __init__: the image extensions.                                         *)
(***************************************************************************)
image_extensions ==
    << <<".","p","n","g">>, <<".","j","p","g">>,
       <<".","j","p","e","g">>, <<".","g","i","f">> >>

(***************************************************************************)
(* load_slide_data.  A row is [slide_num, placeholder, value]; value is    *)
(* already '' where the CSV field is null.  slide_data_dict is kept as a   *)
(* sequence of SlideData in first-seen order of slide_num.                 *)
(***************************************************************************)
SlideData(n) == [slide_num |-> n, content |-> <<>>, images |-> <<>>]

images_set(images, k, v) ==
    [x \in (DOMAIN images) \cup {k} |-> IF x = k THEN v ELSE images[x]]

load_row_images(images, row) ==
    IF isfile(row.value) /\ isdigit(row.placeholder)
    THEN images_set(images, int(row.placeholder), row.value)
    ELSE images

load_row(dict, row) ==
    LET d1 == IF \E i \in 1..Len(dict) : dict[i].slide_num = row.slide_num
              THEN dict
              ELSE Append(dict, SlideData(row.slide_num))
        at == CHOOSE i \in 1..Len(d1) : d1[i].slide_num = row.slide_num
    IN  [d1 EXCEPT ![at] =
            [slide_num |-> d1[at].slide_num,
             content |-> dict_set(d1[at].content, row.placeholder, row.value),
             images |-> load_row_images(d1[at].images, row)]]

RECURSIVE load_rows(_, _)
load_rows(dict, rs) ==
    IF Len(rs) = 0 THEN dict ELSE load_rows(load_row(dict, Head(rs)), Tail(rs))

load_slide_data(rs) == load_rows(<<>>, rs)

(***************************************************************************)
(* _replace_text_or_image and _replace_text: the replacement of one match  *)
(* m of text t.  ret is the returned string; swap says that                *)
(* _replace_image_placeholder is called, with image_path.                  *)
(***************************************************************************)
is_image_name(placeholder) ==
    \E e \in 1..Len(image_extensions) :
        endswith(lower(placeholder), image_extensions[e])

replace_text_or_image(t, m, content) ==
    LET placeholder == strip(group1(t, m))
        image_path == dict_get(content, placeholder, group0(t, m))
    IN  IF is_image_name(placeholder)
        THEN IF isfile(image_path)
             THEN [ret |-> <<>>, swap |-> TRUE, image_path |-> image_path]
             ELSE [ret |-> group0(t, m), swap |-> FALSE, image_path |-> <<>>]
        ELSE [ret |-> dict_get(content, placeholder, group0(t, m)),
              swap |-> FALSE, image_path |-> <<>>]

replace_text(t, m, content) ==
    dict_get(content, strip(group1(t, m)), group0(t, m))

\* pattern.sub over a run of a text frame: the new text, and the image
\* paths of the swaps its matches ask for, in match order
sub_text_or_image(t, content) ==
    LET ms == finditer(t, 1)
        rs == [k \in 1..Len(ms) |-> replace_text_or_image(t, ms[k], content)]
    IN  [text |-> stitch(t, 1, ms, [k \in 1..Len(ms) |-> rs[k].ret]),
         swaps |-> SelectSeq(rs, LAMBDA r : r.swap)]

\* pattern.sub over a run of a table cell
sub_text(t, content) ==
    LET ms == finditer(t, 1)
    IN  stitch(t, 1, ms, [k \in 1..Len(ms) |-> replace_text(t, ms[k], content)])

(***************************************************************************)
(* The presentation.  shapes[id] is the shape object with identity id (it  *)
(* stays reachable from Python after its element is removed); slides[k]    *)
(* is the shape tree of slide k, the ids of its member shapes in document  *)
(* order.  A shape has the capability flags the walker tests, its          *)
(* geometry <<left, top, width, height>>, its paragraphs (each a sequence  *)
(* of runs [text, address]; address <<>> is no inline hyperlink), its      *)
(* click action and, for a table, the runs of its cells in row, cell,      *)
(* paragraph, run order.                                                   *)
(***************************************************************************)
VARIABLES
    rows, row_i, slide_data_dict,          \* load_slide_data
    slide_data,                            \* self.slide_data
    slides, shapes,                        \* self.prs
    pc, slide_index, data_i, cur, nxt, run_i,  \* replace_placeholders
    log, slides0, shapes0,                 \* history: what was done; the template
    t_segs, t_content, t_out, t_pc         \* one pattern.sub call

load_vars == <<rows, row_i, slide_data_dict>>
walk_vars == <<slides, shapes, slide_index, data_i, cur, nxt, run_i, log,
               slides0, shapes0>>
text_vars == <<t_segs, t_content, t_out, t_pc>>
vars == <<load_vars, slide_data, pc, walk_vars, text_vars>>

SeqsUpTo(S, n) == UNION {[1..k -> S] : k \in 0..n}

run(text, address) == [text |-> text, address |-> address]

no_click == [action |-> "none", address |-> <<>>]
link_click(url) == [action |-> "hyperlink", address |-> url]

\* a variant in which the added picture takes over the placeholder binding
picture_in_placeholder(image_path, geom) ==
    [kind |-> "picture", has_text_frame |-> FALSE, has_table |-> FALSE,
     is_placeholder |-> TRUE, idx |-> 3, geom |-> geom,
     paras |-> <<>>, click |-> no_click, cells |-> <<>>,
     image |-> image_path]

\* what add_picture creates: no text frame, no table, no placeholder format
picture(image_path, geom) ==
    [kind |-> "picture", has_text_frame |-> FALSE, has_table |-> FALSE,
     is_placeholder |-> FALSE, idx |-> 0, geom |-> geom,
     paras |-> <<>>, click |-> no_click, cells |-> <<>>,
     image |-> image_path]

in_tree(tree, s) == \E i \in 1..Len(tree) : tree[i] = s

remove(tree, s) == SelectSeq(tree, LAMBDA x : x # s)

\* the element after s in the tree, 0 when s is the last one
next_sibling(tree, s) ==
    LET at == CHOOSE i \in 1..Len(tree) : tree[i] = s
    IN  IF at < Len(tree) THEN tree[at + 1] ELSE 0

\* shape.text: paragraphs joined by a line feed, a paragraph its runs' text
shape_text(sh) ==
    join(<<"\n">>,
         [p \in 1..Len(sh.paras) |->
            concat([r \in 1..Len(sh.paras[p]) |-> sh.paras[p][r].text])])

\* the runs of a text frame in paragraph, run order: <<paragraph, run>>
RECURSIVE run_places(_, _)
run_places(paras, p) ==
    IF p > Len(paras) THEN <<>>
    ELSE [r \in 1..Len(paras[p]) |-> <<p, r>>] \o run_places(paras, p + 1)

\* one entry of the history: the operation op was applied to shape s of
\* slide k under record d; at is the run's number (0 outside a text frame),
\* attached tells whether s was in the shape tree, pic is the picture added
event(op, k, d, s, at, attached, ok, pic) ==
    [op |-> op, slide |-> k, data |-> d, shape |-> s, at |-> at,
     attached |-> attached, ok |-> ok, pic |-> pic]

\* a variant that passes no size to add_picture: the picture is added at
\* the shape's left and top with the image's own width and height (0, 0)
replace_image_placeholder_own_size(doc, op, k, d, s, at, image_path) ==
    LET pic == Len(doc.shapes) + 1
        attached == in_tree(doc.slides[k], s)
        added == Append(doc.slides[k], pic)
        geom == doc.shapes[s].geom
    IN  [slides |-> [doc.slides EXCEPT ![k] =
                        IF attached THEN remove(added, s) ELSE added],
         shapes |-> Append(doc.shapes,
                           picture(image_path, <<geom[1], geom[2], 0, 0>>)),
         log |-> Append(doc.log, event(op, k, d, s, at, attached, attached, pic)),
         err |-> ~attached]

\* a variant in which removing an already removed shape does nothing
replace_image_placeholder_idempotent(doc, op, k, d, s, at, image_path) ==
    LET pic == Len(doc.shapes) + 1
        attached == in_tree(doc.slides[k], s)
        added == Append(doc.slides[k], pic)
    IN  [slides |-> [doc.slides EXCEPT ![k] =
                        IF attached THEN remove(added, s) ELSE added],
         shapes |-> Append(doc.shapes, picture(image_path, doc.shapes[s].geom)),
         log |-> Append(doc.log, event(op, k, d, s, at, attached, attached, pic)),
         err |-> FALSE]

(***************************************************************************)
(* _replace_image_placeholder on the document doc = [slides, shapes, log,  *)
(* err]: read the geometry, add a picture at the end of the slide's shape  *)
(* tree, then remove the shape's element from its parent.  An element      *)
(* that is already removed has no parent: getparent() is None and the      *)
(* call raises, after the picture was added.                               *)
(***************************************************************************)
replace_image_placeholder(doc, op, k, d, s, at, image_path) ==
    LET pic == Len(doc.shapes) + 1
        attached == in_tree(doc.slides[k], s)
        added == Append(doc.slides[k], pic)
    IN  [slides |-> [doc.slides EXCEPT ![k] =
                        IF attached THEN remove(added, s) ELSE added],
         shapes |-> Append(doc.shapes, picture(image_path, doc.shapes[s].geom)),
         log |-> Append(doc.log, event(op, k, d, s, at, attached, attached, pic)),
         err |-> ~attached]

\* the swaps that the matches of one run ask for, in order, until one raises
RECURSIVE replace_images_of_run(_, _, _, _, _, _)
replace_images_of_run(doc, swaps, k, d, s, at) ==
    IF Len(swaps) = 0 \/ doc.err THEN doc
    ELSE replace_images_of_run(
             replace_image_placeholder(doc, "swap_text", k, d, s, at,
                                       Head(swaps).image_path),
             Tail(swaps), k, d, s, at)

(***************************************************************************)
(* _identify_and_replace_hyperlink.  The text is read once; for each       *)
(* content key found in it, in insertion order, the click action's         *)
(* hyperlink (if the action is a hyperlink) and every run's hyperlink      *)
(* that has an address are set to the value.  Assigning an empty address   *)
(* removes the hyperlink, so the action is no longer a hyperlink and the   *)
(* run no longer has an address.                                           *)
(***************************************************************************)
set_click_address(click, new_link) ==
    IF click.action = "hyperlink"
    THEN IF new_link = <<>> THEN no_click ELSE link_click(new_link)
    ELSE click

set_run_address(r, new_link) ==
    IF r.address # <<>> THEN run(r.text, new_link) ELSE r

replace_hyperlink(sh, new_link) ==
    [sh EXCEPT
        !.click = set_click_address(sh.click, new_link),
        !.paras = [p \in 1..Len(sh.paras) |->
                     [r \in 1..Len(sh.paras[p]) |->
                        set_run_address(sh.paras[p][r], new_link)]]]

RECURSIVE replace_hyperlinks_from(_, _, _, _)
replace_hyperlinks_from(sh, text, content, i) ==
    IF i > Len(content) THEN sh
    ELSE replace_hyperlinks_from(
             IF contains(text, content[i][1])
             THEN replace_hyperlink(sh, content[i][2]) ELSE sh,
             text, content, i + 1)

identify_and_replace_hyperlink(sh, content) ==
    replace_hyperlinks_from(sh, shape_text(sh), content, 1)

\* _replace_table_placeholder on the runs of the table's cells
replace_table_placeholder(sh, content) ==
    [sh EXCEPT !.cells = [c \in 1..Len(sh.cells) |-> sub_text(sh.cells[c], content)]]

(***************************************************************************)
(* Inputs: the template's shapes and the rows of the CSV table.            *)
(***************************************************************************)
tok(name) == <<"{", "{">> \o name \o <<"}", "}">>

text_shape(geom, paras, click, is_placeholder, idx) ==
    [kind |-> "text", has_text_frame |-> TRUE, has_table |-> FALSE,
     is_placeholder |-> is_placeholder, idx |-> idx, geom |-> geom,
     paras |-> paras, click |-> click, cells |-> <<>>, image |-> <<>>]

table_shape(geom, cells, is_placeholder, idx) ==
    [kind |-> "table", has_text_frame |-> FALSE, has_table |-> TRUE,
     is_placeholder |-> is_placeholder, idx |-> idx, geom |-> geom,
     paras |-> <<>>, click |-> no_click, cells |-> cells, image |-> <<>>]

\* two runs in one paragraph, a click hyperlink and an inline hyperlink
P_two ==
    text_shape(<<1, 2, 3, 4>>,
               << <<run(s_name \o <<" ">>, s_old), run(tok(s_name), <<>>)>> >>,
               link_click(s_old), FALSE, 0)
\* an image token in the first paragraph, no run in the second, a text
\* token in the third
P_img ==
    text_shape(<<5, 6, 7, 8>>,
               << <<run(tok(s_a_png), <<>>)>>, <<>>,
                  <<run(tok(s_name), s_old)>> >>,
               no_click, FALSE, 0)
\* a native placeholder (position index 3) whose text holds an image token
P_ph_img ==
    text_shape(<<9, 10, 11, 12>>, << <<run(tok(s_a_png), <<>>)>> >>,
               no_click, TRUE, 3)
\* a table in a native placeholder (position index 3)
P_table ==
    table_shape(<<13, 14, 15, 16>>,
                <<tok(s_a_png), <<"x">> \o tok(<<" ">> \o s_name \o <<" ">>)>>,
                TRUE, 3)

Protos == {P_two, P_img, P_ph_img, P_table}

\* the shape of slide 2
P_last ==
    text_shape(<<21, 22, 23, 24>>, << <<run(tok(s_name), s_old)>> >>,
               no_click, FALSE, 0)

row(n, placeholder, value) ==
    [slide_num |-> n, placeholder |-> placeholder, value |-> value]

WalkRows ==
    {row(1, s_name, s_Al), row(1, s_a_png, f_img), row(1, s_3, f_img2),
     row(1, s_n, <<>>), row(2, s_name, s_Bo)}

LoadRows ==
    {row(1, s_3, f_img), row(1, s_3, s_hello), row(1, s_03, f_img2),
     row(1, s_3, f_img2), row(1, s_name, s_Al), row(1, s_name, f_img),
     row(2, s_3, f_gone), row(2, s_name, <<>>)}

(***************************************************************************)
(* The program after __init__: the table is loaded into self.slide_data   *)
(* (the rows and the dict of load_slide_data were its locals), the         *)
(* template is open, replace_placeholders has not started.                 *)
(***************************************************************************)
IdleLoad == rows = <<>> /\ row_i = 0 /\ slide_data_dict = <<>>

IdleWalk ==
    /\ slides = <<>> /\ shapes = <<>> /\ slides0 = <<>> /\ shapes0 = <<>>
    /\ slide_index = -1 /\ data_i = 0 /\ cur = 0 /\ nxt = 0 /\ run_i = 0
    /\ log = <<>>

IdleText == t_segs = <<>> /\ t_content = <<>> /\ t_out = <<>> /\ t_pc = "idle"

Init ==
    /\ \E rs \in SeqsUpTo(WalkRows, MaxRows) : slide_data = load_slide_data(rs)
    /\ IdleLoad
    /\ \E ps \in SeqsUpTo(Protos, MaxShapes) :
          /\ shapes = ps \o <<P_last>>
          /\ slides = <<[i \in 1..Len(ps) |-> i], <<Len(ps) + 1>> >>
          /\ shapes0 = ps \o <<P_last>>
          /\ slides0 = <<[i \in 1..Len(ps) |-> i], <<Len(ps) + 1>> >>
    /\ pc = "slides"
    /\ slide_index = -1 /\ data_i = 0 /\ cur = 0 /\ nxt = 0 /\ run_i = 0
    /\ log = <<>>
    /\ IdleText

(***************************************************************************)
(* replace_placeholders: the three nested loops, one action per step.      *)
(***************************************************************************)
slide_no == slide_index + 1

\* a variant that compares the 0-based index
matches_zero_based(index, data) == index = data.slide_num

\* if slide_index + 1 == data.slide_num
matches(index, data) == index + 1 = data.slide_num

after_table(sh) ==
    IF sh.is_placeholder /\ sh.idx \in DOMAIN slide_data[data_i].images
    THEN "image" ELSE "shapes"

after_text(sh) == IF sh.has_table THEN "table" ELSE after_table(sh)

after_yield(sh) == IF sh.has_text_frame THEN "text" ELSE after_text(sh)

\* for slide_index, slide in enumerate(self.prs.slides)
NextSlide ==
    /\ pc = "slides" /\ slide_index + 1 < Len(slides)
    /\ slide_index' = slide_index + 1
    /\ data_i' = 0
    /\ pc' = "data"
    /\ UNCHANGED <<load_vars, slide_data, slides, shapes, cur, nxt, run_i, log,
                   slides0, shapes0, text_vars>>

\* for data in self.slide_data, slide_index + 1 == data.slide_num:
\* iter(slide.shapes) starts at the first shape of the tree
DataMatch ==
    /\ pc = "data" /\ data_i < Len(slide_data)
    /\ matches(slide_index, slide_data[data_i + 1])
    /\ data_i' = data_i + 1
    /\ nxt' = IF Len(slides[slide_no]) = 0 THEN 0 ELSE slides[slide_no][1]
    /\ pc' = "shapes"
    /\ UNCHANGED <<load_vars, slide_data, slides, shapes, slide_index, cur,
                   run_i, log, slides0, shapes0, text_vars>>

DataSkip ==
    /\ pc = "data" /\ data_i < Len(slide_data)
    /\ ~matches(slide_index, slide_data[data_i + 1])
    /\ data_i' = data_i + 1
    /\ UNCHANGED <<load_vars, slide_data, pc, slides, shapes, slide_index, cur,
                   nxt, run_i, log, slides0, shapes0, text_vars>>

DataDone ==
    /\ pc = "data" /\ data_i = Len(slide_data)
    /\ pc' = "slides"
    /\ UNCHANGED <<load_vars, slide_data, walk_vars, text_vars>>

\* for shape in slide.shapes: the iterator hands out the element it holds
\* and moves on to that element's next sibling before the body runs
NextShape ==
    /\ pc = "shapes" /\ nxt # 0
    /\ cur' = nxt
    /\ nxt' = next_sibling(slides[slide_no], nxt)
    /\ run_i' = 0
    /\ log' = Append(log, event("visit", slide_no, data_i, nxt, 0, TRUE, TRUE, 0))
    /\ pc' = after_yield(shapes[nxt])
    /\ UNCHANGED <<load_vars, slide_data, slides, shapes, slide_index, data_i,
                   slides0, shapes0, text_vars>>

ShapesDone ==
    /\ pc = "shapes" /\ nxt = 0
    /\ pc' = "data"
    /\ UNCHANGED <<load_vars, slide_data, walk_vars, text_vars>>

\* _replace_text_placeholders, one run: pattern.sub (with the swaps its
\* matches make), run.text = new_text, _identify_and_replace_hyperlink
TextRun ==
    /\ pc = "text"
    /\ run_i < Len(run_places(shapes[cur].paras, 1))
    /\ LET place == run_places(shapes[cur].paras, 1)[run_i + 1]
           content == slide_data[data_i].content
           res == sub_text_or_image(shapes[cur].paras[place[1]][place[2]].text,
                                    content)
           doc == replace_images_of_run(
                      [slides |-> slides, shapes |-> shapes, log |-> log,
                       err |-> FALSE],
                      res.swaps, slide_no, data_i, cur, run_i + 1)
           attached == in_tree(doc.slides[slide_no], cur)
           written == [doc.shapes[cur] EXCEPT
                          !.paras[place[1]][place[2]].text = res.text]
       IN  /\ slides' = doc.slides
           /\ IF doc.err
              THEN /\ shapes' = doc.shapes
                   /\ log' = doc.log
                   /\ run_i' = run_i
                   /\ pc' = "aborted"
              ELSE /\ shapes' = [doc.shapes EXCEPT ![cur] =
                                    identify_and_replace_hyperlink(written, content)]
                   /\ log' = doc.log \o
                        <<event("run", slide_no, data_i, cur, run_i + 1,
                                attached, TRUE, 0),
                          event("hyperlink", slide_no, data_i, cur, run_i + 1,
                                attached, TRUE, 0)>>
                   /\ run_i' = run_i + 1
                   /\ pc' = "text"
    /\ UNCHANGED <<load_vars, slide_data, slide_index, data_i, cur, nxt,
                   slides0, shapes0, text_vars>>

\* the runs of the text frame are exhausted
TextDone ==
    /\ pc = "text"
    /\ run_i = Len(run_places(shapes[cur].paras, 1))
    /\ pc' = after_text(shapes[cur])
    /\ UNCHANGED <<load_vars, slide_data, walk_vars, text_vars>>

\* a variant that resolves the tokens of the cells as those of a text
\* frame are, _replace_text_or_image for _replace_text
TableCellsWithImages ==
    /\ pc = "table"
    /\ LET content == slide_data[data_i].content
           res == [c \in 1..Len(shapes[cur].cells) |->
                      sub_text_or_image(shapes[cur].cells[c], content)]
           doc == replace_images_of_run(
                      [slides |-> slides, shapes |-> shapes, log |-> log,
                       err |-> FALSE],
                      concat([c \in 1..Len(res) |-> res[c].swaps]),
                      slide_no, data_i, cur, 0)
       IN  /\ slides' = doc.slides
           /\ shapes' = [doc.shapes EXCEPT
                            ![cur].cells = [c \in 1..Len(res) |-> res[c].text]]
           /\ log' = Append(doc.log, event("table", slide_no, data_i, cur, 0,
                                           in_tree(slides[slide_no], cur), TRUE, 0))
           /\ pc' = IF doc.err THEN "aborted" ELSE after_table(shapes[cur])
    /\ UNCHANGED <<load_vars, slide_data, slide_index, data_i, cur, nxt, run_i,
                   slides0, shapes0, text_vars>>

\* if shape.has_table: self._replace_table_placeholder(shape, data.content)
TableCells ==
    /\ pc = "table"
    /\ shapes' = [shapes EXCEPT ![cur] =
                    replace_table_placeholder(shapes[cur], slide_data[data_i].content)]
    /\ log' = Append(log, event("table", slide_no, data_i, cur, 0,
                                in_tree(slides[slide_no], cur), TRUE, 0))
    /\ pc' = after_table(shapes[cur])
    /\ UNCHANGED <<load_vars, slide_data, slides, slide_index, data_i, cur, nxt,
                   run_i, slides0, shapes0, text_vars>>

\* if shape.is_placeholder and shape.placeholder_format.idx in data.images
ImageBinding ==
    /\ pc = "image"
    /\ LET doc == replace_image_placeholder(
                      [slides |-> slides, shapes |-> shapes, log |-> log,
                       err |-> FALSE],
                      "swap_idx", slide_no, data_i, cur, 0,
                      slide_data[data_i].images[shapes[cur].idx])
       IN  /\ slides' = doc.slides
           /\ shapes' = doc.shapes
           /\ log' = doc.log
           /\ pc' = IF doc.err THEN "aborted" ELSE "shapes"
    /\ UNCHANGED <<load_vars, slide_data, slide_index, data_i, cur, nxt, run_i,
                   slides0, shapes0, text_vars>>

\* replace_placeholders has returned: save_presentation
save_presentation ==
    /\ pc = "slides" /\ slide_index + 1 = Len(slides)
    /\ pc' = "saved"
    /\ UNCHANGED <<load_vars, slide_data, walk_vars, text_vars>>

Next ==
    \/ NextSlide \/ DataMatch \/ DataSkip \/ DataDone
    \/ NextShape \/ ShapesDone
    \/ TextRun \/ TextDone \/ TableCells \/ ImageBinding
    \/ save_presentation

Spec == Init /\ [][Next]_vars

(***************************************************************************)
(* SpecLoad: inside __init__, load_slide_data row by row.                  *)
(***************************************************************************)
InitLoad ==
    /\ rows \in SeqsUpTo(LoadRows, MaxRows)
    /\ row_i = 0
    /\ slide_data_dict = <<>>
    /\ slide_data = <<>>
    /\ pc = "load"
    /\ IdleWalk
    /\ IdleText

\* for _, row in df.iterrows()
LoadRow ==
    /\ pc = "load" /\ row_i < Len(rows)
    /\ slide_data_dict' = load_row(slide_data_dict, rows[row_i + 1])
    /\ row_i' = row_i + 1
    /\ UNCHANGED <<rows, slide_data, pc, walk_vars, text_vars>>

\* return list(slide_data_dict.values())
LoadReturn ==
    /\ pc = "load" /\ row_i = Len(rows)
    /\ slide_data' = slide_data_dict
    /\ pc' = "loaded"
    /\ UNCHANGED <<load_vars, walk_vars, text_vars>>

NextLoad == LoadRow \/ LoadReturn

SpecLoad == InitLoad /\ [][NextLoad]_vars

(***************************************************************************)
(* SpecText: one pattern.sub call on a run of a text frame or of a table   *)
(* cell.  The run's text is given as segments: literal text, and tokens    *)
(* "{{" lpad name rpad "}}" whose padding is whitespace.  No literal holds *)
(* "{{" or ends with "{", and no name holds "}}" or ends with "}", so the  *)
(* tokens of the rendered text are the token segments.                     *)
(***************************************************************************)
lit(text) == [kind |-> "lit", lpad |-> <<>>, body |-> text, rpad |-> <<>>]
token(lpad, name, rpad) ==
    [kind |-> "tok", lpad |-> lpad, body |-> name, rpad |-> rpad]

raw(seg) ==
    IF seg.kind = "lit" THEN seg.body
    ELSE tok(seg.lpad \o seg.body \o seg.rpad)

render(segs) == concat([i \in 1..Len(segs) |-> raw(segs[i])])

Segs ==
    {lit(<<"H", "i", " ">>), lit(<<"}", "}">>), lit(<<"a", "{", "b", "}">>),
     token(<<>>, s_name, <<>>), token(<<" ">>, s_name, <<"\n", " ">>),
     token(<<>>, s_missing, <<>>), token(<<>>, s_a_png, <<>>),
     token(<<"\t">>, s_B_PNG, <<>>), token(<<>>, s_c_gif, <<" ">>)}

Contents ==
    { <<>>,
      << <<s_name, s_Al>>, <<s_a_png, f_img>>, <<s_B_PNG, f_gone>> >>,
      << <<s_name, tok(s_a_png)>>, <<s_missing, <<>> >>, <<s_c_gif, f_img2>>,
         <<lower(s_B_PNG), f_img>> >> }

InitText ==
    /\ t_segs \in SeqsUpTo(Segs, MaxSegs)
    /\ t_content \in Contents
    /\ t_out = <<>>
    /\ t_pc = "in"
    /\ pc = "idle"
    /\ slide_data = <<>>
    /\ IdleLoad
    /\ IdleWalk

\* new_text of _replace_text_placeholders
SubRun ==
    /\ t_pc = "in"
    /\ t_out' = sub_text_or_image(render(t_segs), t_content).text
    /\ t_pc' = "run"
    /\ UNCHANGED <<load_vars, slide_data, pc, walk_vars, t_segs, t_content>>

\* new_text of _replace_table_placeholder
SubCell ==
    /\ t_pc = "in"
    /\ t_out' = sub_text(render(t_segs), t_content)
    /\ t_pc' = "cell"
    /\ UNCHANGED <<load_vars, slide_data, pc, walk_vars, t_segs, t_content>>

NextText == SubRun \/ SubCell

SpecText == InitText /\ [][NextText]_vars

(***************************************************************************)
(* Properties.                                                             *)
(***************************************************************************)
SwapOps == {"swap_text", "swap_idx"}

EventsOn(s, ops) == {i \in DOMAIN log : log[i].shape = s /\ log[i].op \in ops}

HasKey(content, name) == \E i \in DOMAIN content : content[i][1] = name

ValueOf(content, name) ==
    content[CHOOSE i \in DOMAIN content : content[i][1] = name][2]

\* the names of the inputs that end, in any case, with an image extension
ImageNames == {s_a_png, s_B_PNG, s_c_gif}

\* what a segment becomes: in a run of a text frame (as_run) a token with
\* an image name is dropped when its value is an existing file and kept as
\* it is otherwise; every other token becomes its value, or stays as it is
\* when content has no such key
ExpectSeg(seg, content, as_run) ==
    IF seg.kind = "lit" THEN seg.body
    ELSE IF as_run /\ seg.body \in ImageNames
    THEN IF HasKey(content, seg.body) /\ ValueOf(content, seg.body) \in ExistingFiles
         THEN <<>> ELSE raw(seg)
    ELSE IF HasKey(content, seg.body) THEN ValueOf(content, seg.body)
    ELSE raw(seg)

Expect(segs, content, as_run) ==
    concat([i \in 1..Len(segs) |-> ExpectSeg(segs[i], content, as_run)])

\* C1: literal text substitution.  In a run of a text frame and in a run
\* of a table cell, every token whose trimmed name is not an image name is
\* replaced by content[name] when name is a key of content and is left as
\* it is, braces and padding included, when it is not; the text outside
\* the tokens is unchanged.
C1_LiteralSubstitution ==
    /\ t_pc = "run" => t_out = Expect(t_segs, t_content, TRUE)
    /\ t_pc = "cell" => t_out = Expect(t_segs, t_content, FALSE)

\* a padded token of a known name next to a token of an unknown name
C1_Witness ==
    /\ t_pc = "run"
    /\ t_segs = <<token(<<" ">>, s_name, <<"\n", " ">>),
                  token(<<>>, s_missing, <<>>)>>
    /\ HasKey(t_content, s_name) /\ ~HasKey(t_content, s_missing)
    /\ t_out = s_Al \o tok(s_missing)

\* C2: image swap.  Every swap applied to a shape that is still in its
\* slide's shape tree leaves a new picture in that tree with the geometry
\* of the replaced shape, and the replaced shape out of the tree; once the
\* run that held the image token is written, its text is empty.
C2_ImageSwap ==
    \A i \in DOMAIN log :
        (log[i].op \in SwapOps /\ log[i].attached) =>
            /\ log[i].ok
            /\ log[i].pic > Len(shapes0)
            /\ in_tree(slides[log[i].slide], log[i].pic)
            /\ shapes[log[i].pic].kind = "picture"
            /\ shapes[log[i].pic].geom = shapes0[log[i].shape].geom
            /\ ~in_tree(slides[log[i].slide], log[i].shape)
            /\ \A j \in DOMAIN log :
                 (/\ j > i /\ log[i].op = "swap_text" /\ log[j].op = "run"
                  /\ log[j].shape = log[i].shape /\ log[j].at = log[i].at) =>
                    LET place == run_places(shapes0[log[i].shape].paras, 1)[log[i].at]
                    IN  /\ shapes0[log[i].shape].paras[place[1]][place[2]].text
                             = tok(s_a_png)
                        /\ shapes[log[i].shape].paras[place[1]][place[2]].text
                             = <<>>

\* the run ends saved after one swap by an in-text token and one by a
\* position index
C2_Witness ==
    /\ pc = "saved"
    /\ \E i, j \in DOMAIN log :
          /\ log[i].op = "swap_text" /\ log[i].ok
          /\ log[j].op = "swap_idx" /\ log[j].ok

HasRecord(k) == \E d \in DOMAIN slide_data : slide_data[d].slide_num = k

\* C3: slides without data are untouched.  Nothing is done to a shape of a
\* slide except under a record whose slide_num is the slide's 1-based
\* index, so a record is applied to that slide only; a slide that no
\* record names keeps its shape tree and every one of its shapes as in the
\* template.
C3_UnmatchedUntouched ==
    /\ \A i \in DOMAIN log : slide_data[log[i].data].slide_num = log[i].slide
    /\ \A i, j \in DOMAIN log : log[i].data = log[j].data => log[i].slide = log[j].slide
    /\ \A k \in DOMAIN slides0 :
          ~HasRecord(k) =>
              /\ slides[k] = slides0[k]
              /\ \A n \in DOMAIN slides0[k] :
                    shapes[slides0[k][n]] = shapes0[slides0[k][n]]

\* slide 1 was processed, slide 2 has no record and still shows its token
C3_Witness ==
    /\ pc = "saved"
    /\ ~HasRecord(2) /\ HasRecord(1)
    /\ \E i \in DOMAIN log : log[i].op = "run" /\ log[i].slide = 1
    /\ shapes[slides[2][1]].paras[1][1].text = tok(s_name)

\* str(k) of a non-negative integer
RECURSIVE str_of_int(_)
str_of_int(k) ==
    IF k < 10 THEN <<Digits[k + 1]>>
    ELSE str_of_int(k \div 10) \o <<Digits[(k % 10) + 1]>>

\* C4: DataIndex invariant.  After the load, for every record and every
\* key k of its images, content has the key str(k) and its value is
\* images[k].
C4_ImagesInContent ==
    pc = "loaded" =>
        \A d \in DOMAIN slide_data :
            \A k \in DOMAIN slide_data[d].images :
                /\ HasKey(slide_data[d].content, str_of_int(k))
                /\ ValueOf(slide_data[d].content, str_of_int(k))
                     = slide_data[d].images[k]

\* the text frame of shape s has been gone through
TextProcessed(s) ==
    /\ EventsOn(s, {"visit"}) # {}
    /\ ~(cur = s /\ pc \in {"text", "aborted"})

\* C5: the hyperlink rewriter runs exactly once for every shape with a
\* text frame on a matched slide, whatever the number of its runs.
C5_RewriteOncePerShape ==
    \A s \in DOMAIN shapes0 :
        (shapes0[s].has_text_frame /\ TextProcessed(s)) =>
            Cardinality(EventsOn(s, {"hyperlink"})) = 1

\* C6: after an in-text image swap has removed a shape, nothing more is
\* done to that shape (the write of the text of the run that held the
\* token aside): no run is substituted, no hyperlink is rewritten, no swap
\* is attempted.
C6_RemovedShapeLeftAlone ==
    \A i, j \in DOMAIN log :
        (/\ i < j /\ log[i].op = "swap_text" /\ log[i].ok
         /\ log[j].shape = log[i].shape) =>
            (log[j].op = "run" /\ log[j].at = log[i].at)

\* the segments of the cells of the table of the inputs
TableSegs ==
    << <<token(<<>>, s_a_png, <<>>)>>,
       <<lit(<<"x">>), token(<<" ">>, s_name, <<" ">>)>> >>

\* C7: table cell substitution never swaps images.  The step that
\* processes a table changes no shape tree and adds no shape, and leaves
\* in every cell the literal substitution of its tokens, a token with an
\* image name and an existing image path included.
C7_TableNeverSwaps ==
    [][pc = "table" =>
          /\ slides' = slides
          /\ Len(shapes') = Len(shapes)
          /\ shapes[cur].cells = [c \in 1..2 |-> render(TableSegs[c])]
          /\ shapes'[cur].cells =
                [c \in 1..2 |->
                    Expect(TableSegs[c], slide_data[data_i].content, FALSE)]
          /\ log'[Len(log')].op = "table"]_vars

\* a table whose image token became the path of an existing image, as text
C7_Witness ==
    /\ log # <<>> /\ log[Len(log)].op = "table"
    /\ shapes[cur].has_table
    /\ shapes[cur].cells[1] = f_img
    /\ in_tree(slides[slide_no], cur)
    /\ Len(shapes) = Len(shapes0)

\* the keys of content that occur in the text, by position in content
MatchingKeys(text, content) ==
    {i \in DOMAIN content : contains(text, content[i][1])}

LastMatch(text, content) ==
    content[CHOOSE i \in MatchingKeys(text, content) :
                \A j \in MatchingKeys(text, content) : j <= i][2]

\* C8: hyperlink rewrite result.  After the rewriter has run on a shape
\* (here: for the first time, so that the addresses before it are the
\* template's), if some content key occurs in the shape's text then the
\* click action's hyperlink, if the shape had one, and every run that had
\* an inline hyperlink carry the value of the last such key in insertion
\* order; if no key occurs in it, every address is unchanged.
C8_LastKeyWins ==
    (log # <<>> /\ log[Len(log)].op = "hyperlink"
       /\ Cardinality(EventsOn(log[Len(log)].shape, {"hyperlink"})) = 1) =>
        LET s == log[Len(log)].shape
            content == slide_data[log[Len(log)].data].content
            text == shape_text(shapes[s])
        IN  IF MatchingKeys(text, content) # {}
            THEN /\ shapes0[s].click.action = "hyperlink" =>
                       shapes[s].click.address = LastMatch(text, content)
                 /\ \A p \in DOMAIN shapes0[s].paras :
                       \A r \in DOMAIN shapes0[s].paras[p] :
                          shapes0[s].paras[p][r].address # <<>> =>
                             shapes[s].paras[p][r].address = LastMatch(text, content)
            ELSE /\ shapes[s].click = shapes0[s].click
                 /\ \A p \in DOMAIN shapes0[s].paras :
                       \A r \in DOMAIN shapes0[s].paras[p] :
                          shapes[s].paras[p][r].address
                             = shapes0[s].paras[p][r].address

\* shape s of the template, on a slide matched by record d, holds an
\* in-text image token whose path exists and is a native placeholder whose
\* position index is bound to an image
DoubleSwapShape(s, d) ==
    /\ shapes0[s].has_text_frame
    /\ \E p \in DOMAIN shapes0[s].paras : \E r \in DOMAIN shapes0[s].paras[p] :
          contains(shapes0[s].paras[p][r].text, tok(s_a_png))
    /\ HasKey(slide_data[d].content, s_a_png)
    /\ ValueOf(slide_data[d].content, s_a_png) \in ExistingFiles
    /\ shapes0[s].is_placeholder
    /\ shapes0[s].idx \in DOMAIN slide_data[d].images

\* C9: double swap.  With such a shape on a matched slide the run never
\* reaches the save; once the walker is past the shape's text and table
\* steps, two swaps have been attempted on it, the first one done and the
\* second one failed, and the run is aborted.
C9_DoubleSwapAborts ==
    \A k \in DOMAIN slides0 : \A d \in DOMAIN slide_data :
        \A n \in DOMAIN slides0[k] :
            LET s == slides0[k][n]
                swaps == EventsOn(s, SwapOps)
            IN  (slide_data[d].slide_num = k /\ DoubleSwapShape(s, d)) =>
                    /\ pc # "saved"
                    /\ Cardinality(swaps) <= 2
                    /\ \A i \in swaps :
                          log[i].ok <=> (\A j \in swaps : i <= j)
                    /\ Cardinality(swaps) = 2 => (pc = "aborted" /\ cur = s)
                    /\ ~(cur = s /\ pc \in {"shapes", "data", "slides"})
                    /\ (cur = s /\ pc = "aborted") =>
                          /\ Cardinality(swaps) = 2
                          /\ \E i, j \in swaps :
                                /\ i < j
                                /\ log[i].op = "swap_text"
                                /\ log[j].op = "swap_idx"

\* the run aborted on a shape swapped first by its text, then by its index
C9_Witness ==
    /\ pc = "aborted"
    /\ DoubleSwapShape(cur, data_i)
    /\ \E i, j \in EventsOn(cur, SwapOps) :
          /\ log[i].op = "swap_text" /\ log[i].ok
          /\ log[j].op = "swap_idx" /\ ~log[j].ok

SwapsOnSlide(k, oks) ==
    {i \in DOMAIN log : log[i].op \in SwapOps /\ log[i].slide = k /\ log[i].ok \in oks}

\* the walker's position, in the order in which the loops advance
Phase(p) ==
    CASE p = "text" -> 1 [] p = "table" -> 2 [] p = "image" -> 3
      [] p = "shapes" -> 4 [] p = "data" -> 5 [] p = "slides" -> 6
      [] OTHER -> 7

Visits == {i \in DOMAIN log : log[i].op = "visit"}

Rank == <<slide_index, data_i, Cardinality(Visits), run_i, Phase(pc)>>

RECURSIVE LexLess(_, _)
LexLess(a, b) ==
    /\ Len(a) > 0
    /\ \/ a[1] < b[1]
       \/ a[1] = b[1] /\ LexLess(Tail(a), Tail(b))

\* a step of the walker is possible
CanStep ==
    \/ pc = "slides" /\ slide_index + 1 <= Len(slides)
    \/ pc = "data" /\ data_i <= Len(slide_data)
    \/ pc \in {"shapes", "table", "image"}
    \/ pc = "text" /\ run_i <= Len(run_places(shapes[cur].paras, 1))

\* no shape is visited twice; only shapes of the template are substituted,
\* rewritten or swapped (an added picture never is); a swap adds one
\* picture and, when it succeeds, removes one shape
C10_Counts ==
    /\ pc \in {"saved", "aborted"} \/ CanStep
    /\ slide_index < Len(slides) /\ data_i <= Len(slide_data)
    /\ \A i, j \in Visits : log[i].shape = log[j].shape => i = j
    /\ \A i \in Visits : log[i].shape <= Len(shapes)
    /\ \A i \in DOMAIN log :
          log[i].op # "visit" => log[i].shape <= Len(shapes0)
    /\ \A i \in DOMAIN log :
          log[i].op # "visit" => shapes0[log[i].shape].kind # "picture"
    /\ Len(shapes) <= 3 * Len(shapes0)
    /\ \A k \in DOMAIN slides :
          Len(slides[k]) = Len(slides0[k])
              + Cardinality(SwapsOnSlide(k, {TRUE, FALSE}))
              - Cardinality(SwapsOnSlide(k, {TRUE}))
    /\ pc = "saved" =>
          \A k \in DOMAIN slides : Len(slides[k]) = Len(slides0[k])

\* C10: the substitution ends, saved or aborted: every step moves the
\* walker forward in the order of its loops, whose extents are bounded
\* because no shape is visited twice and an added picture, once visited,
\* is neither substituted nor swapped, so it adds no further picture; a
\* run that reaches the save leaves every slide with as many shapes as the
\* template had.
C10_Terminates == [][LexLess(Rank, Rank') /\ C10_Counts /\ C10_Counts']_vars

\* a saved run in which an added picture was visited after a swap
C10_Witness ==
    /\ pc = "saved"
    /\ \E i, j \in DOMAIN log :
          /\ i < j
          /\ log[i].op \in SwapOps /\ log[i].ok
          /\ log[j].op = "visit" /\ log[j].shape = log[i].pic

=============================================================================
